---- MODULE Spec2Model ----
(***************************************************************************)
(* The receiver binder dyn(impl, instance) of "Rust-Flavored TypeScript"   *)
(* and the Square impl it is used with; the tables of functions of         *)
(* RUST_LIKE_TS_TYPES.ts and the impl() that declares them.                *)
(*                                                                         *)
(* The model follows the JavaScript the TypeScript compiles to: an impl    *)
(* is an ordinary object with data properties, dyn returns a Proxy whose   *)
(* handler has a get trap and nothing else, a struct is a heap object      *)
(* passed by reference.  Every operation is one action; what it returned,  *)
(* threw, printed and called is recorded in `last`.                        *)
(***************************************************************************)
EXTENDS Integers, Sequences, FiniteSets, TLC

\* ------------------------------------------------------------------ bounds
MaxSize == 60      \* sizes above this are not explored
MaxViews == 2      \* proxies created by dyn
MaxEdits == 1      \* changes made to the impl object

\* ------------------------------------------------------------------ values
\* JavaScript values.  typeof v is v.t.
Undefined == [t |-> "undefined", n |-> 0, s |-> ""]
Num(n) == [t |-> "number", n |-> n, s |-> ""]
NaN == [t |-> "number", n |-> 0, s |-> "NaN"]
BigInt(n) == [t |-> "bigint", n |-> n, s |-> ""]
Str(s) == [t |-> "string", n |-> 0, s |-> s]
\* a function written in the source, by name
Fn(name) == [t |-> "function", n |-> 0, s |-> name]
\* a reference to the struct stored at heap[i]
Ref(i) == [t |-> "object", n |-> i, s |-> "struct"]
\* the impl object itself (the `this` of a direct call Square.k(...))
ImplObject == [t |-> "object", n |-> 0, s |-> "Square"]
\* a proxy made by dyn (the `this` of a call proxy.k(...))
ProxyObject == [t |-> "object", n |-> 0, s |-> "Proxy"]
\* the object literal { size } that create returns
SquareLiteral(size) == [t |-> "object", n |-> 0, s |-> "{size}", size |-> size]
\* the arrow function the get trap returns: it captures value and instance
Arrow(value, instance) ==
    [t |-> "function", n |-> 0, s |-> "=>", value |-> value, instance |-> instance]

TypeOf(v) == v.t

\* ------------------------------------------------------ completion records
\* What running a piece of code produced: the value returned, the error
\* thrown ("" when none), the lines printed, the functions entered (with
\* their `this` and argument list, in call order) and the heap afterwards.
Return(ret, log, calls, h) ==
    [ret |-> ret, err |-> "", log |-> log, calls |-> calls, heap |-> h]
Throw(err, calls, h) ==
    [ret |-> Undefined, err |-> err, log |-> <<>>, calls |-> calls, heap |-> h]

Entered(f, thisArg, args) == [fn |-> f, this |-> thisArg, args |-> args]

\* the i-th actual argument, undefined when the caller passed fewer
Arg(args, i) == IF i <= Len(args) THEN args[i] ELSE Undefined

\* self.size
SizeOf(self, h) ==
    IF self.s = "struct" THEN h[self.n]
    ELSE IF self.s = "{size}" THEN self.size
    ELSE Undefined

\* a * b for the operand types that occur: number * bigint is a TypeError,
\* anything that is not a number makes the product NaN
MixesBigInt(a, b) == (a.t = "bigint") # (b.t = "bigint")
Times(a, b) ==
    IF a.t = "number" /\ b.t = "number" /\ a.s = "" /\ b.s = ""
    THEN Num(a.n * b.n)
    ELSE NaN

ErrNullSelf == "TypeError: Cannot read properties of null"
ErrBigIntMix == "TypeError: Cannot mix BigInt and other types"
ErrNotFunction == "TypeError: not a function"
ErrProxyGet == "TypeError: 'get' on proxy: property is read-only and non-configurable"
ErrReadOnly == "TypeError: Cannot assign to read only property"

\* ------------------------------------------------- the functions of Square
\* create(size): Square { return { size } }
SquareCreate(thisArg, args, h) ==
    Return(SquareLiteral(Arg(args, 1)), <<>>,
           <<Entered(Fn("Square.create"), thisArg, args)>>, h)

\* draw(self, delay) { console.log(`Drawing a square with size ${self.size} after ${delay}ms`) }
SquareDraw(thisArg, args, h) ==
    LET self == Arg(args, 1)
        delay == Arg(args, 2)
        calls == <<Entered(Fn("Square.draw"), thisArg, args)>>
    IN IF self.t \in {"null", "undefined"}
       THEN Throw(ErrNullSelf, calls, h)
       ELSE Return(Undefined,
                   <<[text |-> "Drawing a square with size", size |-> SizeOf(self, h),
                      delay |-> delay]>>,
                   calls, h)

\* a resize that stores the factor: resize(self, factor) { self.size = factor }
SquareResizeAssign(thisArg, args, h) ==
    LET self == Arg(args, 1)
        calls == <<Entered(Fn("Square.resize"), thisArg, args)>>
    IN IF self.t \in {"null", "undefined"}
       THEN Throw(ErrNullSelf, calls, h)
       ELSE IF self.s = "struct"
       THEN Return(Undefined, <<>>, calls, [h EXCEPT ![self.n] = Arg(args, 2)])
       ELSE Return(Undefined, <<>>, calls, h)

\* resize(self, factor) { self.size *= factor }
SquareResize(thisArg, args, h) ==
    LET self == Arg(args, 1)
        factor == Arg(args, 2)
        calls == <<Entered(Fn("Square.resize"), thisArg, args)>>
    IN IF self.t \in {"null", "undefined"}
       THEN Throw(ErrNullSelf, calls, h)
       ELSE IF MixesBigInt(SizeOf(self, h), factor)
       THEN Throw(ErrBigIntMix, calls, h)
       ELSE IF self.s = "struct"
       THEN Return(Undefined, <<>>, calls,
                   [h EXCEPT ![self.n] = Times(h[self.n], factor)])
       ELSE Return(Undefined, <<>>, calls, h)

\* the default impl: draw<Self>(self, delay) { console.log(`Drawing after ${delay}ms`) }
DrawableDraw(thisArg, args, h) ==
    Return(Undefined,
           <<[text |-> "Drawing after", size |-> Undefined, delay |-> Arg(args, 2)]>>,
           <<Entered(Fn("Drawable.draw"), thisArg, args)>>, h)

\* self.radius
RadiusOf(self) == IF self.s = "{radius}" THEN self.radius ELSE Undefined

\* CircleDrawer: draw(self: Circle, delay: number) { console.log(`Drawing a circle with radius ${self.radius} after ${delay}ms`) }
CircleDrawerDraw(thisArg, args, h) ==
    LET self == Arg(args, 1)
        calls == <<Entered(Fn("CircleDrawer.draw"), thisArg, args)>>
    IN IF self.t \in {"null", "undefined"}
       THEN Throw(ErrNullSelf, calls, h)
       ELSE Return(Undefined,
                   <<[text |-> "Drawing a circle with radius", size |-> RadiusOf(self),
                      delay |-> Arg(args, 2)]>>,
                   calls, h)

\* SquareDrawer: draw(self: Square, delay: number) { console.log(`Drawing a square with size ${self.size} after ${delay}ms`) }
SquareDrawerDraw(thisArg, args, h) ==
    LET self == Arg(args, 1)
        calls == <<Entered(Fn("SquareDrawer.draw"), thisArg, args)>>
    IN IF self.t \in {"null", "undefined"}
       THEN Throw(ErrNullSelf, calls, h)
       ELSE Return(Undefined,
                   <<[text |-> "Drawing a square with size", size |-> SizeOf(self, h),
                      delay |-> Arg(args, 2)]>>,
                   calls, h)

\* f.call(thisArg, ...args) for a function written in the source
CallDeclared(f, thisArg, args, h) ==
    IF f.s = "Square.create" THEN SquareCreate(thisArg, args, h)
    ELSE IF f.s = "Square.draw" THEN SquareDraw(thisArg, args, h)
    ELSE IF f.s = "Square.resize" THEN SquareResize(thisArg, args, h)
    ELSE IF f.s = "CircleDrawer.draw" THEN CircleDrawerDraw(thisArg, args, h)
    ELSE IF f.s = "SquareDrawer.draw" THEN SquareDrawerDraw(thisArg, args, h)
    ELSE DrawableDraw(thisArg, args, h)

\* a call f(...args) with the given `this`: an arrow made by the get trap
\* runs its body, a declared function runs its own, anything else is not
\* callable
RECURSIVE Call(_, _, _, _)
\* the arrow handing the operation a copy of the struct: value({ ...instance }, ...args)
ArrowBodyCopy(value, instance, args, h) ==
    Call(value, Undefined, <<SquareLiteral(SizeOf(instance, h))>> \o args, h)

\* the arrow calling again after the first call: value(...); return value(...)
ArrowBodyTwice(value, instance, args, h) ==
    LET first == Call(value, Undefined, <<instance>> \o args, h)
        second == Call(value, Undefined, <<instance>> \o args, first.heap)
    IN [second EXCEPT !.calls = first.calls \o second.calls,
                      !.log = first.log \o second.log]

\* the arrow with a block body and no return: (...args) => { value(instance, ...args) }
ArrowBodyNoReturn(value, instance, args, h) ==
    [Call(value, Undefined, <<instance>> \o args, h) EXCEPT !.ret = Undefined]

\* the body of the arrow: (...args) => value(instance, ...args)
ArrowBody(value, instance, args, h) ==
    Call(value, Undefined, <<instance>> \o args, h)

Call(f, thisArg, args, h) ==
    IF TypeOf(f) # "function" THEN Throw(ErrNotFunction, <<>>, h)
    ELSE IF f.s = "=>" THEN ArrowBody(f.value, f.instance, args, h)
    ELSE CallDeclared(f, thisArg, args, h)

\* ---------------------------------------------------------- the impl object
\* An object is its own data properties (value, and whether the property is
\* non-writable and non-configurable) and its [[Extensible]] flag.
Property(value) == [value |-> value, locked |-> FALSE]

\* export const Square = { create, draw, resize } satisfies Impl<...>
SquareImpl ==
    [props |-> [k \in {"create", "draw", "resize"} |->
                    Property(Fn("Square." \o k))],
     extensible |-> TRUE]

OwnKeys(obj) == DOMAIN obj.props
HasOwn(obj, prop) == prop \in DOMAIN obj.props

\* Reflect.get(target, prop, receiver) on an object of data properties
ReflectGet(target, prop) ==
    IF HasOwn(target, prop) THEN target.props[prop].value ELSE Undefined

\* ------------------------------------------------------------------- dyn
\* the trap wrapping whatever it reads, without the typeof test
GetTrapWrapAll(target, prop, instance) ==
    Arrow(ReflectGet(target, prop), instance)

\* the trap binding one shared receiver instead of the proxy's own instance
GetTrapSharedSelf(target, prop, instance) ==
    LET value == ReflectGet(target, prop)
    IN IF TypeOf(value) = "function" THEN Arrow(value, Ref(1)) ELSE value

\* the handler's get trap
GetTrap(target, prop, instance) ==
    LET value == ReflectGet(target, prop)
    IN IF TypeOf(value) = "function" THEN Arrow(value, instance) ELSE value

\* proxy[prop]: the trap runs, then the engine rejects a result that differs
\* from a non-writable, non-configurable data property of the target
ProxyGet(target, prop, instance, h) ==
    LET trapResult == GetTrap(target, prop, instance)
    IN IF HasOwn(target, prop) /\ target.props[prop].locked
          /\ trapResult # target.props[prop].value
       THEN Throw(ErrProxyGet, <<>>, h)
       ELSE Return(trapResult, <<>>, <<>>, h)

\* an ownKeys trap listing the operations only
ProxyOwnKeysFunctions(target) ==
    {k \in OwnKeys(target) : TypeOf(target.props[k].value) = "function"}

\* Object.keys(proxy): the handler has no ownKeys trap, so the target answers
ProxyOwnKeys(target) == OwnKeys(target)

\* a binder that writes the bound functions into the impl itself
dynInPlace(impl, instance) ==
    [impl |-> [impl EXCEPT !.props =
                  [k \in DOMAIN impl.props |->
                      IF TypeOf(impl.props[k].value) = "function"
                      THEN [impl.props[k] EXCEPT !.value = Arrow(@, instance)]
                      ELSE impl.props[k]]],
     proxy |-> [target |-> ImplObject, instance |-> instance]]

\* dyn(impl, instance): the proxy, and the impl object as dyn leaves it
dyn(impl, instance) ==
    [impl |-> impl, proxy |-> [target |-> ImplObject, instance |-> instance]]

\* proxy[prop](...args): the read, then the call of what was read
ProxyCall(target, prop, instance, args, h) ==
    LET read == ProxyGet(target, prop, instance, h)
    IN IF read.err # "" THEN read ELSE Call(read.ret, ProxyObject, args, h)

\* impl[prop](self, ...args), the direct call
DirectCall(target, prop, self, args, h) ==
    Call(ReflectGet(target, prop), ImplObject, <<self>> \o args, h)

\* impl[prop] = value, in strict mode
Assign(impl, prop, value) ==
    IF HasOwn(impl, prop)
    THEN IF impl.props[prop].locked
         THEN [impl |-> impl, err |-> ErrReadOnly]
         ELSE [impl |-> [impl EXCEPT !.props[prop].value = value], err |-> ""]
    ELSE IF ~impl.extensible
    THEN [impl |-> impl, err |-> ErrReadOnly]
    ELSE [impl |-> [impl EXCEPT !.props =
                       [k \in DOMAIN impl.props \cup {prop} |->
                           IF k = prop THEN Property(value) ELSE impl.props[k]]],
          err |-> ""]

\* Object.freeze(impl)
Freeze(impl) ==
    [props |-> [k \in DOMAIN impl.props |-> [impl.props[k] EXCEPT !.locked = TRUE]],
     extensible |-> FALSE]

ErrCannotDelete == "TypeError: Cannot delete property"
ErrCannotDefine == "TypeError: Cannot define property"

\* delete target[prop], in strict mode
Remove(target, prop) ==
    IF ~HasOwn(target, prop) THEN [impl |-> target, err |-> ""]
    ELSE IF target.props[prop].locked THEN [impl |-> target, err |-> ErrCannotDelete]
    ELSE [impl |-> [target EXCEPT !.props =
                       [k \in DOMAIN target.props \ {prop} |-> target.props[k]]],
          err |-> ""]

\* Object.defineProperty(target, prop,
\*     { value, writable: false, configurable: false, enumerable: true })
DefineProperty(target, prop, value) ==
    LET entry == [value |-> value, locked |-> TRUE]
    IN IF HasOwn(target, prop)
       THEN IF target.props[prop].locked /\ target.props[prop].value # value
            THEN [impl |-> target, err |-> ErrCannotDefine]
            ELSE [impl |-> [target EXCEPT !.props[prop] = entry], err |-> ""]
       ELSE IF ~target.extensible
       THEN [impl |-> target, err |-> ErrCannotDefine]
       ELSE [impl |-> [target EXCEPT !.props =
                          [k \in DOMAIN target.props \cup {prop} |->
                              IF k = prop THEN entry ELSE target.props[k]]],
             err |-> ""]

\* a proxy that keeps what is written to it and leaves the target alone
ProxySetKept(target, prop, value) == [impl |-> target, err |-> ""]

\* proxy[prop] = value: the handler has no set trap, the target's [[Set]] runs
\* with the proxy as receiver and defines the property through the proxy,
\* which has no defineProperty trap either, so on the target
ProxySet(target, prop, value) == Assign(target, prop, value)

\* delete proxy[prop]: the handler has no deleteProperty trap
ProxyDelete(target, prop) == Remove(target, prop)

\* ------------------------------------------------------------------ inputs
RecIds == {1, 2}
\* Square.create(10), Square.create(30)
InitHeap == <<Num(10), Num(30)>>
Instances == {Ref(1), Ref(2)}
PropNames == {"create", "draw", "resize", "label"}
\* the calls a caller makes: a key and the rest arguments (a size, a delay or
\* a factor; an extra argument; a bigint where a number is expected)
CallInputs ==
    {<<"create", <<Num(2)>>>>,
     <<"draw", <<Num(2)>>>>,
     <<"resize", <<Num(2)>>>>,
     <<"resize", <<Num(3), Num(2)>>>>,
     <<"resize", <<BigInt(2)>>>>,
     <<"label", <<Num(2)>>>>}
\* the direct calls of the usage: Square.draw(square, 500), Square.resize(square, 2)
DirectInputs == {<<"draw", <<Num(2)>>>>, <<"resize", <<Num(2)>>>>}
\* the argument lists a bound function read earlier is called with
ArgLists == {input[2] : input \in CallInputs}
\* what a caller may store into the impl: another draw, a non-function entry
Assignments == {<<"draw", Fn("Drawable.draw")>>, <<"label", Str("square")>>}

\* the consts of RUST_LIKE_TS_TYPES.ts that hold a table of functions
TableNames == {"CircleDrawer", "SquareDrawer", "Square"}
\* those declared through impl<Trait, Struct>({ ... })
ImplNames == {"CircleDrawer", "SquareDrawer"}
\* const circle: Circle = { radius: 5, timestamp: { createdAt: Date.now() } };
\* no function of the tables reads the timestamp
CircleStruct == [t |-> "object", n |-> 0, s |-> "{radius}", radius |-> Num(5)]
\* CircleDrawer.draw(circle, 1000), SquareDrawer.draw(square, 500),
\* Square.draw(square, 500), Square.resize(square, 2), on either square, and
\* a resize by 3
TableCalls ==
    {<<"CircleDrawer", "draw", CircleStruct, <<Num(1000)>>>>}
    \cup {<<"SquareDrawer", "draw", Ref(i), <<Num(500)>>>> : i \in RecIds}
    \cup {<<"Square", "draw", Ref(i), <<Num(500)>>>> : i \in RecIds}
    \cup {<<"Square", "resize", Ref(i), <<Num(f)>>>> : i \in RecIds, f \in {2, 3}}

\* the keys read, called, written and deleted while the impl changes
LiveKeys == {"draw", "paint", "label"}
LiveCalls == {<<"draw", <<Num(2)>>>>, <<"resize", <<Num(2)>>>>, <<"paint", <<Num(2)>>>>}
\* an entry replaced by another function, a key added with a function, a key
\* added with a string
LiveChanges ==
    {<<"draw", Fn("Drawable.draw")>>, <<"paint", Fn("Drawable.draw")>>,
     <<"label", Str("square")>>}

InBounds(h) == \A i \in RecIds : h[i].n <= MaxSize

\* ------------------------------------------------------------------- state
VARIABLES
    Square,   \* the impl object
    heap,     \* heap[i]: the size field of struct i
    views,    \* the proxies dyn has returned, in creation order
    held,     \* const f = d[k]: the bound function last read from a proxy, and its key
    edits,    \* number of changes made to the impl object
    scale,    \* scale[i]: product of the factors of the resize calls on struct i that returned
    objects,  \* the objects the literals of RUST_LIKE_TS_TYPES.ts evaluated to, by address
    consts,   \* consts[name]: the address the const of that name holds, 0 before its declaration
    last      \* the operation just performed, the state it started in and what it produced

vars == <<Square, heap, views, held, edits, scale, objects, consts, last>>

\* the history of resize calls: a completed resize(self, factor) with a
\* numeric factor on struct i multiplies scale[i] by factor
Scaled(sc, c) ==
    IF c.err = "" /\ Len(c.calls) = 1 /\ c.calls[1].fn = Fn("Square.resize")
       /\ Arg(c.calls[1].args, 1).s = "struct"
       /\ Arg(c.calls[1].args, 2).t = "number"
    THEN [sc EXCEPT ![Arg(c.calls[1].args, 1).n] = @ * Arg(c.calls[1].args, 2).n]
    ELSE sc

\* no bound function read yet
NotHeld == [f |-> Undefined, prop |-> ""]

Observed(c) == [ret |-> c.ret, err |-> c.err, log |-> c.log, calls |-> c.calls]

\* the record of a step: the operation, the proxy (0 when none), key,
\* receiver and arguments it was given, the bound function it read or called,
\* the impl, heap and proxies it started from, and what it produced
Step(op, view, prop, self, args, f, c) ==
    [op |-> op, view |-> view, prop |-> prop, self |-> self, args |-> args,
     f |-> f, out |-> Observed(c), keys |-> {},
     pre |-> [Square |-> Square, heap |-> heap, views |-> views]]

Init ==
    /\ Square = SquareImpl
    /\ heap = InitHeap
    /\ views = <<>>
    /\ held = NotHeld
    /\ edits = 0
    /\ scale = <<1, 1>>
    /\ objects = <<>>
    /\ consts = [name \in TableNames |-> 0]
    /\ last = Step("init", 0, "", Undefined, <<>>, Undefined,
                   Return(Undefined, <<>>, <<>>, InitHeap))

\* const d = dyn(Square, instance)
Dyn(instance) ==
    /\ Len(views) < MaxViews
    /\ LET r == dyn(Square, instance)
       IN /\ Square' = r.impl
          /\ views' = Append(views, r.proxy)
          /\ last' = Step("dyn", Len(views) + 1, "", instance, <<>>, Undefined,
                          Return(ProxyObject, <<>>, <<>>, heap))
    /\ UNCHANGED <<objects, consts, heap, held, edits, scale>>

\* d[prop], the value read and dropped
Get(v, prop) ==
    /\ v \in DOMAIN views
    /\ LET c == ProxyGet(Square, prop, views[v].instance, heap)
       IN /\ heap' = c.heap
          /\ last' = Step("get", v, prop, views[v].instance, <<>>, Undefined, c)
    /\ UNCHANGED <<objects, consts, Square, views, held, edits, scale>>

\* const f = d[prop]: the read; a function read is the one f holds from now on
Keep(v, prop) ==
    /\ v \in DOMAIN views
    /\ LET c == ProxyGet(Square, prop, views[v].instance, heap)
       IN /\ heap' = c.heap
          /\ held' = IF c.err = "" /\ TypeOf(c.ret) = "function"
                     THEN [f |-> c.ret, prop |-> prop]
                     ELSE held
          /\ last' = Step("keep", v, prop, views[v].instance, <<>>, Undefined, c)
    /\ UNCHANGED <<objects, consts, Square, views, edits, scale>>

\* f(...args), for the bound function read earlier
Invoke(args) ==
    /\ TypeOf(held.f) = "function"
    /\ LET c == Call(held.f, Undefined, args, heap)
       IN /\ InBounds(c.heap)
          /\ heap' = c.heap
          /\ last' = Step("invoke", 0, held.prop, held.f.instance, args, held.f, c)
          /\ scale' = Scaled(scale, c)
    /\ UNCHANGED <<objects, consts, Square, views, held, edits>>

\* d[prop](...args)
BoundCall(v, prop, args) ==
    /\ v \in DOMAIN views
    /\ LET c == ProxyCall(Square, prop, views[v].instance, args, heap)
       IN /\ InBounds(c.heap)
          /\ heap' = c.heap
          /\ last' = Step("call", v, prop, views[v].instance, args, Undefined, c)
          /\ scale' = Scaled(scale, c)
    /\ UNCHANGED <<objects, consts, Square, views, held, edits>>

\* Square[prop](self, ...args)
Direct(prop, self, args) ==
    /\ LET c == DirectCall(Square, prop, self, args, heap)
       IN /\ InBounds(c.heap)
          /\ heap' = c.heap
          /\ last' = Step("direct", 0, prop, self, args, Undefined, c)
          /\ scale' = Scaled(scale, c)
    /\ UNCHANGED <<objects, consts, Square, views, held, edits>>

\* Square[prop] = value
Set(prop, value) ==
    /\ edits < MaxEdits
    /\ LET r == Assign(Square, prop, value)
       IN /\ Square' = r.impl
          /\ last' = Step("set", 0, prop, Undefined, <<value>>, Undefined,
                          IF r.err = "" THEN Return(value, <<>>, <<>>, heap)
                          ELSE Throw(r.err, <<>>, heap))
    /\ edits' = edits + 1
    /\ UNCHANGED <<objects, consts, heap, views, held, scale>>

\* Object.freeze(Square)
FreezeImpl ==
    /\ edits < MaxEdits
    /\ Square' = Freeze(Square)
    /\ last' = Step("freeze", 0, "", Undefined, <<>>, Undefined,
                    Return(ImplObject, <<>>, <<>>, heap))
    /\ edits' = edits + 1
    /\ UNCHANGED <<objects, consts, heap, views, held, scale>>

\* Object.keys(d)
Keys(v) ==
    /\ v \in DOMAIN views
    /\ last' = [Step("keys", v, "", views[v].instance, <<>>, Undefined,
                     Return(Undefined, <<>>, <<>>, heap))
                EXCEPT !.keys = ProxyOwnKeys(Square)]
    /\ UNCHANGED <<objects, consts, Square, heap, views, held, edits, scale>>

\* the usage of the README: proxies are made, read and called through, the
\* impl is called directly, and a caller may change the impl
Next ==
    \/ \E instance \in Instances : Dyn(instance)
    \/ \E v \in 1..MaxViews, prop \in PropNames : Get(v, prop)
    \/ \E v \in 1..MaxViews, input \in CallInputs : BoundCall(v, input[1], input[2])
    \/ \E self \in Instances, input \in DirectInputs : Direct(input[1], self, input[2])
    \/ \E a \in Assignments : Set(a[1], a[2])
    \/ FreezeImpl
    \/ \E v \in 1..MaxViews : Keys(v)

Spec == Init /\ [][Next]_vars

\* a bound function is read, kept while the impl may change, and called later
NextHeld ==
    \/ \E instance \in Instances : Dyn(instance)
    \/ \E v \in 1..MaxViews, prop \in PropNames : Keep(v, prop)
    \/ \E args \in ArgLists : Invoke(args)
    \/ \E a \in Assignments : Set(a[1], a[2])
    \/ FreezeImpl

SpecHeld == Init /\ [][NextHeld]_vars

\* ------------------------------------------------------------------ claims
IsOperation(impl, prop) ==
    HasOwn(impl, prop) /\ TypeOf(impl.props[prop].value) = "function"

\* the direct call Square[prop](self, ...args) that the last step corresponds
\* to, run from the state the step started in
DirectOfLast ==
    DirectCall(last.pre.Square, last.prop, last.self, last.args, last.pre.heap)

\* C1: for every key k of Square that holds a function, d[k](...args) returns
\* the same result, throws the same error, prints the same lines and leaves
\* the heap (the receiver included) as Square[k](instance, ...args) does from
\* the same state.
C1_BoundCallSameAsDirect ==
    (last.op = "call" /\ IsOperation(last.pre.Square, last.prop)) =>
        /\ last.out.ret = DirectOfLast.ret
        /\ last.out.err = DirectOfLast.err
        /\ last.out.log = DirectOfLast.log
        /\ heap = DirectOfLast.heap

\* C2: dyn, and every read or call made through a proxy, leaves the impl object as it was (its keys and every entry), so every
\* direct call Square[k](self, ...args) behaves afterwards as before.
C2_BindingLeavesImplUnchanged ==
    last.op \in {"dyn", "get", "call", "keys"} =>
        /\ Square = last.pre.Square
        /\ \A self \in Instances, input \in CallInputs :
              DirectCall(Square, input[1], self, input[2], heap)
                  = DirectCall(last.pre.Square, input[1], self, input[2], heap)

C2_Witness ==
    /\ Len(views) = 2
    /\ last.op = "call" /\ last.prop = "resize" /\ last.out.err = ""

\* C3: the proxy holds the struct by reference: a bound resize(factor) with a
\* numeric factor on the impl as written returns normally and multiplies the
\* size of that very struct by factor, so the size of a struct is always its
\* initial size times the product of the factors of the resize calls made on
\* it (10, then 20 after resize(2), then 60 after resize(3)).
C3_ResizeAccumulates ==
    /\ \A i \in RecIds : heap[i] = Num(InitHeap[i].n * scale[i])
    /\ (last.op = "call" /\ last.prop = "resize"
        /\ last.pre.Square.props["resize"] = Property(Fn("Square.resize"))
        /\ last.args[1].t = "number") =>
           /\ last.out.err = ""
           /\ heap = [last.pre.heap EXCEPT ![last.self.n] =
                         Num(last.pre.heap[last.self.n].n * last.args[1].n)]

C3_Witness ==
    /\ last.op = "call" /\ last.prop = "resize" /\ last.self = Ref(1)
    /\ last.args[1] = Num(3)
    /\ last.pre.heap[1] = Num(20)
    /\ heap[1] = Num(60)

\* C4: when Square[k](instance, ...args) throws E, d[k](...args) throws the
\* same E.
C4_SameErrorPropagates ==
    (last.op = "call" /\ DirectOfLast.err # "") => last.out.err = DirectOfLast.err

\* C5: reading through the proxy a key of Square whose value is not a
\* function returns exactly that value.
C5_NonFunctionPassesThrough ==
    (last.op = "get" /\ HasOwn(last.pre.Square, last.prop)
     /\ ~IsOperation(last.pre.Square, last.prop)) =>
        /\ last.out.err = ""
        /\ last.out.ret = last.pre.Square.props[last.prop].value

C5_Witness ==
    last.op = "get" /\ last.prop = "label" /\ last.out.ret = Str("square")

\* C6: dyn and a read through the proxy enter no function; a call d[k](...args)
\* that reads a function enters Square[k] exactly once, with the instance
\* first and the caller's arguments after it, in order, and enters nothing
\* when the read throws or yields no function.
C6_CalledOnceAtCallTime ==
    /\ last.op \in {"dyn", "get", "keys"} => last.out.calls = <<>>
    /\ last.op = "call" =>
          IF IsOperation(last.pre.Square, last.prop)
             /\ ~last.pre.Square.props[last.prop].locked
          THEN last.out.calls =
                  <<Entered(last.pre.Square.props[last.prop].value, Undefined,
                            <<last.self>> \o last.args)>>
          ELSE last.out.calls = <<>>

C6_Witness ==
    /\ last.op = "call" /\ last.prop = "resize" /\ Len(last.args) = 2
    /\ last.out.calls = <<Entered(Fn("Square.resize"), Undefined,
                                  <<last.self, Num(3), Num(2)>>)>>

\* what a call d[prop](...args) through proxy w would produce
WouldObserve(impl, vs, w, prop, args, h) ==
    Observed(ProxyCall(impl, prop, vs[w].instance, args, h))

\* C7 as stated: a call through one proxy never changes what any call through
\* another proxy produces, whatever the two instances are.
C7_ViewsNeverAffectEachOther ==
    last.op = "call" =>
        \A w \in DOMAIN views \ {last.view} : \A input \in CallInputs :
            WouldObserve(Square, views, w, input[1], input[2], heap)
                = WouldObserve(last.pre.Square, last.pre.views, w, input[1], input[2],
                               last.pre.heap)

\* C7 as amended: a call through a proxy leaves the
\* proxies and the impl as they were, leaves every struct other than its own
\* instance unchanged, and so changes nothing that a call through a proxy of
\* another struct produces.
C7_DistinctReceiversIndependent ==
    last.op = "call" =>
        /\ views = last.pre.views
        /\ Square = last.pre.Square
        /\ \A w \in DOMAIN views :
              views[w].instance # last.self =>
                 /\ heap[views[w].instance.n] = last.pre.heap[views[w].instance.n]
                 /\ \A input \in CallInputs :
                       WouldObserve(Square, views, w, input[1], input[2], heap)
                           = WouldObserve(last.pre.Square, last.pre.views, w,
                                          input[1], input[2], last.pre.heap)

C7_Witness ==
    /\ Len(views) = 2 /\ views[1].instance # views[2].instance
    /\ last.op = "call" /\ last.prop = "resize" /\ last.out.err = ""
    /\ last.view = 2
    /\ heap[last.self.n] # last.pre.heap[last.self.n]

\* C8: a read through the proxy throws nothing, and a call through the proxy
\* throws only when the direct call throws.
C8_NoNewErrors ==
    /\ last.op = "get" => last.out.err = ""
    /\ (last.op = "call" /\ last.out.err # "") => DirectOfLast.err # ""

\* C9 as stated: a bound function, when called, runs the entry Square holds
\* under its key at that moment.
C9_RunsEntryHeldWhenInvoked ==
    last.op = "invoke" =>
        LET now == Call(ReflectGet(last.pre.Square, last.prop), Undefined,
                        <<last.self>> \o last.args, last.pre.heap)
        IN last.out = Observed(now) /\ heap = now.heap

\* C9 as amended: the function read from d[k] captures the entry Square held
\* under k at the read and the instance; called, it runs that entry with the
\* instance prepended to the arguments and returns its result unchanged.
C9_RunsEntryHeldWhenRead ==
    /\ (last.op = "keep" /\ IsOperation(last.pre.Square, last.prop)
        /\ last.out.err = "") =>
          /\ last.out.ret = Arrow(last.pre.Square.props[last.prop].value,
                                  last.pre.views[last.view].instance)
          /\ held = [f |-> last.out.ret, prop |-> last.prop]
    /\ last.op = "invoke" =>
          LET then == Call(last.f.value, Undefined,
                           <<last.f.instance>> \o last.args, last.pre.heap)
          IN last.out = Observed(then) /\ heap = then.heap

C9_Witness ==
    /\ last.op = "invoke" /\ last.prop = "draw"
    /\ Square.props["draw"].value = Fn("Drawable.draw")
    /\ last.out.calls[1].fn = Fn("Square.draw")

\* C10: the proxy has exactly the keys of Square.
C10_SameKeys ==
    last.op = "keys" => last.keys = OwnKeys(Square)

C10_Witness ==
    last.op = "keys" /\ "label" \in last.keys /\ "draw" \in last.keys

\* ------------------------------------------------ the impl changes after dyn
ChangeStep(op, view, prop, value, r) ==
    Step(op, view, prop, Undefined, <<value>>, Undefined,
         IF r.err = "" THEN Return(value, <<>>, <<>>, heap) ELSE Throw(r.err, <<>>, heap))

\* delete Square[prop]
Delete(prop) ==
    /\ edits < MaxEdits
    /\ LET r == Remove(Square, prop)
       IN /\ Square' = r.impl
          /\ last' = ChangeStep("delete", 0, prop, Undefined, r)
    /\ edits' = edits + 1
    /\ UNCHANGED <<objects, consts, heap, views, held, scale>>

\* Object.defineProperty(Square, prop, { value, writable: false, configurable: false, enumerable: true })
Define(prop, value) ==
    /\ edits < MaxEdits
    /\ LET r == DefineProperty(Square, prop, value)
       IN /\ Square' = r.impl
          /\ last' = ChangeStep("define", 0, prop, value, r)
    /\ edits' = edits + 1
    /\ UNCHANGED <<objects, consts, heap, views, held, scale>>

\* d[prop] = value
ViewSet(v, prop, value) ==
    /\ v \in DOMAIN views
    /\ edits < MaxEdits
    /\ LET r == ProxySet(Square, prop, value)
       IN /\ Square' = r.impl
          /\ last' = ChangeStep("viewset", v, prop, value, r)
    /\ edits' = edits + 1
    /\ UNCHANGED <<objects, consts, heap, views, held, scale>>

\* delete d[prop]
ViewDelete(v, prop) ==
    /\ v \in DOMAIN views
    /\ edits < MaxEdits
    /\ LET r == ProxyDelete(Square, prop)
       IN /\ Square' = r.impl
          /\ last' = ChangeStep("viewdelete", v, prop, Undefined, r)
    /\ edits' = edits + 1
    /\ UNCHANGED <<objects, consts, heap, views, held, scale>>

\* proxies are made, the impl is changed directly or through a proxy, and the
\* proxies are read and called through afterwards
NextLive ==
    \/ \E instance \in Instances : Dyn(instance)
    \/ \E v \in 1..MaxViews, prop \in LiveKeys : Get(v, prop)
    \/ \E v \in 1..MaxViews, input \in LiveCalls : BoundCall(v, input[1], input[2])
    \/ \E a \in LiveChanges : Set(a[1], a[2])
    \/ \E prop \in LiveKeys : Delete(prop)
    \/ \E a \in LiveChanges : Define(a[1], a[2])
    \/ \E v \in 1..MaxViews, a \in LiveChanges : ViewSet(v, a[1], a[2])
    \/ \E v \in 1..MaxViews, prop \in LiveKeys : ViewDelete(v, prop)

SpecLive == Init /\ [][NextLive]_vars

\* the entry Square held under the key of the last step when the step began
EntryOfLast == ReflectGet(last.pre.Square, last.prop)

\* C12: the proxy is a live view: once Square has been changed after dyn (a
\* key added, an entry replaced, an entry removed), a read d[k] gives what
\* Square holds under k now (bound to the instance when it is a function) and
\* a fresh call d[k](...args) enters the function Square holds under k now,
\* once, with the instance first, and gives what that function gives.
C12_ChangesVisibleOnNextRead ==
    /\ (edits > 0 /\ last.op = "get") =>
          /\ last.out.err = ""
          /\ last.out.ret = IF TypeOf(EntryOfLast) = "function"
                            THEN Arrow(EntryOfLast, last.self)
                            ELSE EntryOfLast
    /\ (edits > 0 /\ last.op = "call" /\ TypeOf(EntryOfLast) = "function") =>
          LET now == Call(EntryOfLast, Undefined, <<last.self>> \o last.args,
                          last.pre.heap)
          IN /\ last.out = Observed(now)
             /\ last.out.calls =
                    <<Entered(EntryOfLast, Undefined, <<last.self>> \o last.args)>>
             /\ heap = now.heap

\* C13: a write through a proxy is a write to Square: d[k] = v and delete d[k]
\* leave Square exactly as Square[k] = v and delete Square[k] would, with the
\* same error if any; after a write that succeeded Square holds v under k (or
\* no longer has k), every direct call Square[k](self, ...args) runs v, and
\* every proxy of Square reads v, bound to its own instance when v is a
\* function.
C13_WritesReachTheImpl ==
    /\ last.op = "viewset" =>
          LET direct == Assign(last.pre.Square, last.prop, last.args[1])
              v == last.args[1]
          IN /\ Square = direct.impl /\ last.out.err = direct.err
             /\ last.out.err = "" =>
                   /\ HasOwn(Square, last.prop) /\ ReflectGet(Square, last.prop) = v
                   /\ \A self \in Instances, input \in LiveCalls :
                         DirectCall(Square, last.prop, self, input[2], heap)
                             = Call(v, ImplObject, <<self>> \o input[2], heap)
                   /\ \A w \in DOMAIN views :
                         ProxyGet(Square, last.prop, views[w].instance, heap)
                             = Return(IF TypeOf(v) = "function"
                                      THEN Arrow(v, views[w].instance) ELSE v,
                                      <<>>, <<>>, heap)
    /\ last.op = "viewdelete" =>
          LET direct == Remove(last.pre.Square, last.prop)
          IN /\ Square = direct.impl /\ last.out.err = direct.err
             /\ last.out.err = "" =>
                   /\ ~HasOwn(Square, last.prop)
                   /\ \A self \in Instances, input \in LiveCalls :
                         DirectCall(Square, last.prop, self, input[2], heap).err
                             = ErrNotFunction
                   /\ \A w \in DOMAIN views :
                         ProxyGet(Square, last.prop, views[w].instance, heap)
                             = Return(Undefined, <<>>, <<>>, heap)
    /\ last.op \in {"viewset", "viewdelete"} =>
          heap = last.pre.heap /\ views = last.pre.views

\* a write through the first of two proxies has replaced draw
C13_Witness ==
    /\ Len(views) = 2 /\ last.op = "viewset" /\ last.view = 1
    /\ last.prop = "draw" /\ last.out.err = ""
    /\ last.pre.Square.props["draw"].value = Fn("Square.draw")
    /\ Square.props["draw"].value = Fn("Drawable.draw")
    /\ ProxyCall(Square, "draw", views[2].instance, <<Num(2)>>, heap).calls[1].fn
           = Fn("Drawable.draw")

\* ------------------------------------------- tables of RUST_LIKE_TS_TYPES.ts
\* a reference to the object at objects[a]
TableRef(a) == [t |-> "object", n |-> a, s |-> "table"]

\* the object literal written after each const
TableLiteral(name) ==
    IF name = "CircleDrawer"
    THEN [props |-> [k \in {"draw"} |-> Property(Fn("CircleDrawer.draw"))],
          extensible |-> TRUE]
    ELSE IF name = "SquareDrawer"
    THEN [props |-> [k \in {"draw"} |-> Property(Fn("SquareDrawer.draw"))],
          extensible |-> TRUE]
    ELSE [props |-> [k \in {"draw", "resize"} |-> Property(Fn("Square." \o k))],
          extensible |-> TRUE]

\* an impl that returns a copy: return { ...impl }
implCopy(objs, a) ==
    [ret |-> TableRef(Len(objs) + 1), objects |-> Append(objs, objs[a]), calls |-> <<>>]

\* function impl(impl) { return impl; }: the reference it was given comes
\* back, no object is made or changed, nothing is called
impl(objs, a) ==
    [ret |-> TableRef(a), objects |-> objs, calls |-> <<>>]

\* the step record of this file: the const, key, receiver and arguments, the
\* address of the literal's object, and the objects, consts and heap before
TableStep(op, name, prop, self, args, given, c) ==
    [op |-> op, name |-> name, prop |-> prop, self |-> self, args |-> args,
     given |-> given, out |-> Observed(c),
     pre |-> [objects |-> objects, consts |-> consts, heap |-> heap]]

\* const CircleDrawer = impl<Drawable, Circle>({ draw(self, delay) { ... } })
DeclareImpl(name) ==
    /\ consts[name] = 0
    /\ LET given == Len(objects) + 1
           r == impl(Append(objects, TableLiteral(name)), given)
       IN /\ objects' = r.objects
          /\ consts' = [consts EXCEPT ![name] = r.ret.n]
          /\ last' = TableStep("impl", name, "", Undefined, <<>>, given,
                               Return(r.ret, <<>>, r.calls, heap))
    /\ UNCHANGED <<Square, heap, views, held, edits, scale>>

\* const Square: Drawable<Square> & Resizeable<Square> = { draw, resize }
DeclareSquare ==
    /\ consts["Square"] = 0
    /\ objects' = Append(objects, TableLiteral("Square"))
    /\ consts' = [consts EXCEPT !["Square"] = Len(objects) + 1]
    /\ last' = TableStep("const", "Square", "", Undefined, <<>>, Len(objects) + 1,
                         Return(TableRef(Len(objects) + 1), <<>>, <<>>, heap))
    /\ UNCHANGED <<Square, heap, views, held, edits, scale>>

\* Name.prop(self, ...args) on a declared const
TableCall(name, prop, self, args) ==
    /\ consts[name] # 0
    /\ LET c == Call(ReflectGet(objects[consts[name]], prop), TableRef(consts[name]),
                     <<self>> \o args, heap)
       IN /\ InBounds(c.heap)
          /\ heap' = c.heap
          /\ scale' = Scaled(scale, c)
          /\ last' = TableStep("tablecall", name, prop, self, args, 0, c)
    /\ UNCHANGED <<Square, views, held, edits, objects, consts>>

NextTables ==
    \/ \E name \in ImplNames : DeclareImpl(name)
    \/ DeclareSquare
    \/ \E input \in TableCalls : TableCall(input[1], input[2], input[3], input[4])

SpecTables == Init /\ [][NextTables]_vars

\* C11: impl(table) returns the very object the literal evaluated to, creates
\* and changes no object (the table keeps its keys and entries), enters no
\* function, and a later call Name.op(self, ...args) on a const declared through
\* impl enters exactly the function written in the literal, once, and gives
\* what that function gives.
C11_ImplIsIdentity ==
    /\ last.op = "impl" =>
          /\ last.out.ret = TableRef(last.given)
          /\ consts = [last.pre.consts EXCEPT ![last.name] = last.given]
          /\ objects = Append(last.pre.objects, TableLiteral(last.name))
          /\ last.out.calls = <<>> /\ last.out.log = <<>> /\ last.out.err = ""
          /\ heap = last.pre.heap
    /\ (last.op = "tablecall" /\ last.name \in ImplNames) =>
          LET written == Call(TableLiteral(last.name).props[last.prop].value,
                              TableRef(consts[last.name]),
                              <<last.self>> \o last.args, last.pre.heap)
          IN /\ last.out = Observed(written)
             /\ heap = written.heap
             /\ last.out.calls =
                    <<Entered(Fn(last.name \o "." \o last.prop),
                              TableRef(consts[last.name]),
                              <<last.self>> \o last.args)>>
             /\ objects = last.pre.objects /\ consts = last.pre.consts

C11_Witness ==
    /\ last.op = "tablecall" /\ last.name = "SquareDrawer" /\ last.self = Ref(1)
    /\ consts["CircleDrawer"] # 0
    /\ last.out.log = <<[text |-> "Drawing a square with size", size |-> Num(10),
                         delay |-> Num(500)]>>

\* C14: on the Square table, draw(self, delay) prints the size of self and
\* changes nothing; resize(self, factor) multiplies the size of self by factor
\* and changes nothing else (no other struct, no table); so the size a draw
\* prints is the initial size times the factors of the resizes made before it
\* on that square (10, then 20 after resize(2)).
C14_DrawReadsResizeScales ==
    /\ \A i \in RecIds : heap[i] = Num(InitHeap[i].n * scale[i])
    /\ (last.op = "tablecall" /\ last.name = "Square") =>
          /\ last.out.err = "" /\ last.out.ret = Undefined
          /\ objects = last.pre.objects /\ consts = last.pre.consts
          /\ Square = SquareImpl /\ views = <<>>
          /\ last.prop = "draw" =>
                /\ heap = last.pre.heap
                /\ last.out.log =
                       <<[text |-> "Drawing a square with size",
                          size |-> Num(InitHeap[last.self.n].n * scale[last.self.n]),
                          delay |-> last.args[1]]>>
          /\ last.prop = "resize" =>
                /\ heap = [last.pre.heap EXCEPT ![last.self.n] =
                              Num(last.pre.heap[last.self.n].n * last.args[1].n)]
                /\ last.out.log = <<>>

C14_Witness ==
    /\ last.op = "tablecall" /\ last.name = "Square" /\ last.prop = "draw"
    /\ last.self = Ref(1) /\ scale[1] = 2
    /\ last.out.log[1].size = Num(20)
    /\ heap = <<Num(20), Num(30)>>

====
